---- MODULE Spec2Model ----
(***************************************************************************)
(* A model of go-webconnector: the request builder (package request), the  *)
(* two response dispatchers (package responder, strict; package response,  *)
(* lenient) and the connector (package connector) that merges option lists *)
(* and drives build + send + dispatch.  Five specifications share the     *)
(* variables: Spec (one caller of the connector), SpecDispatch (the two    *)
(* dispatchers), SpecRequest (request.New called directly),                *)
(* SpecConcurrent (two callers of one connector) and SpecSuccessive (one   *)
(* caller whose previous call is remembered).                              *)
(*                                                                         *)
(* Conventions.  A Go string that the code only compares or stores is a    *)
(* TLA+ string.  A string the code concatenates or searches (path, URL) is *)
(* a sequence of tokens.  A Go map is a function whose DOMAIN is the key   *)
(* set; `range` over a map visits the keys in an order the runtime picks,  *)
(* so every such loop takes the order as an argument and the actions       *)
(* choose it with \E.  A nil error, nil body or nil context is Nil.        *)
(***************************************************************************)
EXTENDS Integers, Sequences, FiniteSets, TLC

VARIABLES
    c,             \* connector: the Connector built by connector.New
    pc,            \* connector: where the caller of the connector stands
    call,          \* connector: arguments of the latest DoBuild call
    req,           \* connector: the *http.Request built by the latest call
    clientRet,     \* connector: the (response, error) WebClient.Do returned to the latest call
    ret,           \* connector: the error returned by New / DoBuild
    clientCalls,   \* connector: requests handed to WebClient.Do by the latest call
    respondCalls,  \* connector: Responder.Respond calls of the latest call: argument and return
    callerMap,     \* connector: the map the caller gave WithPaths, which the caller still holds
    newCall,       \* connector: a connector.New call that failed: its options, the Connector its loop left
    pkg,           \* dispatch: which package built the responder under test
    rsp,           \* dispatch: the Responder under test
    out,           \* dispatch: what the latest Respond returned
    rspOptions,    \* dispatch: the options the responder under test was built from
    invoked,       \* parser / handler invocations made by the latest Respond
    target,        \* the caller's *string slot written by response.ForString
    rn,            \* request: the latest request.New call, its Builder and what it returned
    procs,         \* concurrency: the DoBuild call each concurrent caller has under way
    prev           \* successive calls: the DoBuild call that returned before the latest one

vars == <<c, pc, call, req, clientRet, ret, clientCalls, respondCalls, callerMap, newCall,
          pkg, rsp, out, rspOptions, invoked, target, rn, procs, prev>>

connVars == <<c, pc, call, req, clientRet, ret, clientCalls, respondCalls, callerMap, newCall>>
dispVars == <<pkg, rsp, out, rspOptions>>
reqVars == <<rn>>
concVars == <<procs>>
histVars == <<prev>>

(***************************************************************************)
(* Bounds of the model.                                                    *)
(***************************************************************************)
MaxConnOptions == 2    \* connector.New takes at most this many options
MaxCallOptions == 1    \* DoBuild takes at most this many per-call options
MaxRespOptions == 2    \* responder.New / response.NewResponder take at most this many
MaxBuilderOptions == 3 \* request.New, called directly, takes at most this many options

Nil == "nil"

\* Sequences over S of length at most n.
SeqsUpTo(S, n) == UNION {[1..k -> S] : k \in 0..n}

\* All orders in which `range` may visit the keys of a map.
Perms(S) == {p \in [1..Cardinality(S) -> S] : \A i, j \in 1..Cardinality(S) : p[i] = p[j] => i = j}

\* m[k] = v on a Go map.
MapPut(m, k, v) == [x \in (DOMAIN m) \cup {k} |-> IF x = k THEN v ELSE m[x]]

EmptyMap == << >>

(***************************************************************************)
(* package request                                                         *)
(***************************************************************************)
headerContentType == "Content-Type"

MethodGet == "GET"
MethodPost == "POST"

\* fmt.Sprint.  Where the code takes an interface{} value the model passes
\* an integer, which Sprint prints in decimal.
Sprint(value) == ToString(value)

\* The Builder literal of request.New: GET, http and empty maps.
NewBuilder(host) ==
    [ctx |-> Nil, method |-> MethodGet, protocol |-> "http", host |-> host,
     path |-> << >>, params |-> EmptyMap, headers |-> EmptyMap,
     queries |-> EmptyMap, body |-> Nil]

\* What an Option returns: the Builder as it left it, and its error.
Applied(r, err) == [r |-> r, err |-> err]

WithContext(r, ctx) == Applied([r EXCEPT !.ctx = ctx], Nil)

WithProtocol(r, protocol) == Applied([r EXCEPT !.protocol = protocol], Nil)

WithMethod(r, method) == Applied([r EXCEPT !.method = method], Nil)

WithPath(r, path) == Applied([r EXCEPT !.path = path], Nil)

WithParam(r, key, value) ==
    Applied([r EXCEPT !.params = MapPut(r.params, key, Sprint(value))], Nil)

\* Mutant: a header value replaces the values already under the key.
WithHeaderOverwrite(r, key, value) ==
    Applied([r EXCEPT !.headers = MapPut(r.headers, key, <<Sprint(value)>>)], Nil)

WithHeader(r, key, value) ==
    Applied([r EXCEPT !.headers =
                IF key \in DOMAIN r.headers
                THEN MapPut(r.headers, key, Append(r.headers[key], Sprint(value)))
                ELSE MapPut(r.headers, key, <<Sprint(value)>>)], Nil)

WithQuery(r, key, value) ==
    Applied([r EXCEPT !.queries =
                IF key \in DOMAIN r.queries
                THEN MapPut(r.queries, key, Append(r.queries[key], Sprint(value)))
                ELSE MapPut(r.queries, key, <<Sprint(value)>>)], Nil)

\* WithParams: one binding per key of the map; the keys are distinct, so the
\* order of the range does not show.
WithParams(r, params) ==
    Applied([r EXCEPT !.params =
                [k \in (DOMAIN r.params) \cup (DOMAIN params) |->
                    IF k \in DOMAIN params THEN Sprint(params[k]) ELSE r.params[k]]], Nil)

\* fmt.Sprint of every value of a list.
SprintAll(values) == [i \in DOMAIN values |-> Sprint(values[i])]

\* The loops of WithHeaders and WithQueries: every value of a key is appended
\* to that key's list, in the list's order; a key with no value adds nothing.
AppendAll(m, added) ==
    [k \in (DOMAIN m) \cup {x \in DOMAIN added : added[x] # << >>} |->
        (IF k \in DOMAIN m THEN m[k] ELSE << >>)
            \o (IF k \in DOMAIN added THEN SprintAll(added[k]) ELSE << >>)]

WithHeaders(r, headers) == Applied([r EXCEPT !.headers = AppendAll(r.headers, headers)], Nil)

WithQueries(r, queries) == Applied([r EXCEPT !.queries = AppendAll(r.queries, queries)], Nil)

\* WithBody: the body is the reader given; a reader is the bytes it yields.
WithBody(r, body) == Applied([r EXCEPT !.body = body], Nil)

\* WithString: a buffer holding the bytes of the string.
WithString(r, body) == Applied([r EXCEPT !.body = body], Nil)

\* The values the model marshals: the struct of the tests and a channel,
\* which neither encoding/json nor encoding/xml can encode.
StructValue == "struct{Field: myField}"
ChanValue == "make(chan int, 1)"
ErrJsonUnsupported == "json: unsupported type: chan int"
ErrXmlUnsupported == "xml: unsupported type: chan int"

JsonMarshal(v) ==
    IF v = ChanValue
    THEN [b |-> Nil, err |-> ErrJsonUnsupported]
    ELSE [b |-> "{\"field\":\"myField\"}", err |-> Nil]

XmlMarshal(v) ==
    IF v = ChanValue
    THEN [b |-> Nil, err |-> ErrXmlUnsupported]
    ELSE [b |-> "<obj><field>myField</field></obj>", err |-> Nil]

WithJson(r, body) ==
    LET m == JsonMarshal(body)
    IN  IF m.err # Nil
        THEN Applied(r, m.err)
        ELSE Applied([r EXCEPT !.headers = MapPut(r.headers, headerContentType,
                                                  <<"application/json">>),
                               !.body = m.b], Nil)

WithXml(r, body) ==
    LET m == XmlMarshal(body)
    IN  IF m.err # Nil
        THEN Applied(r, m.err)
        ELSE Applied([r EXCEPT !.headers = MapPut(r.headers, headerContentType,
                                                  <<"application/xml">>),
                               !.body = m.b], Nil)

\* A caller-written option that only fails, as in the tests:
\* func(r *request.Builder) error { return errors.New("mocked error") }.
CustomOption(r, err) == Applied(r, err)

\* An Option value is a record naming the constructor and its arguments;
\* applying it runs the closure the constructor returned.
ApplyOption(o, r) ==
    CASE o.op = "WithContext"  -> WithContext(r, o.ctx)
      [] o.op = "WithProtocol" -> WithProtocol(r, o.protocol)
      [] o.op = "WithMethod"   -> WithMethod(r, o.method)
      [] o.op = "WithPath"     -> WithPath(r, o.path)
      [] o.op = "WithParam"    -> WithParam(r, o.key, o.value)
      [] o.op = "WithHeader"   -> WithHeader(r, o.key, o.value)
      [] o.op = "WithQuery"    -> WithQuery(r, o.key, o.value)
      [] o.op = "WithParams"   -> WithParams(r, o.params)
      [] o.op = "WithHeaders"  -> WithHeaders(r, o.headers)
      [] o.op = "WithQueries"  -> WithQueries(r, o.queries)
      [] o.op = "WithBody"     -> WithBody(r, o.body)
      [] o.op = "WithString"   -> WithString(r, o.body)
      [] o.op = "WithJson"     -> WithJson(r, o.body)
      [] o.op = "WithXml"      -> WithXml(r, o.body)
      [] o.op = "Custom"       -> CustomOption(r, o.err)

\* Mutant: the loop goes on after a failing option and reports the first
\* error at the end.
RECURSIVE ApplyOptionsNoAbort(_, _)
ApplyOptionsNoAbort(r, options) ==
    IF options = << >>
    THEN Applied(r, Nil)
    ELSE LET a == ApplyOption(Head(options), r)
             b == ApplyOptionsNoAbort(a.r, Tail(options))
         IN  Applied(b.r, IF a.err # Nil THEN a.err ELSE b.err)

\* The option loop of request.New: in order, stopping at the first error.
RECURSIVE ApplyOptions(_, _)
ApplyOptions(r, options) ==
    IF options = << >>
    THEN Applied(r, Nil)
    ELSE LET a == ApplyOption(Head(options), r)
         IN  IF a.err # Nil THEN a ELSE ApplyOptions(a.r, Tail(options))

\* Mutant: the values of a key are emitted last first.
RECURSIVE QueryValuesReversed(_, _, _)
QueryValuesReversed(q, k, v) ==
    IF v = << >>
    THEN q
    ELSE QueryValuesReversed((IF Len(q) = 0 THEN <<"?">> ELSE q \o <<"&">>)
                                \o <<k, "=", v[Len(v)]>>,
                             k, SubSeq(v, 1, Len(v) - 1))

\* The query loop of build: one key=value pair per value, "?" first, "&" between.
RECURSIVE QueryValues(_, _, _)
QueryValues(q, k, v) ==
    IF v = << >>
    THEN q
    ELSE QueryValues((IF Len(q) = 0 THEN <<"?">> ELSE q \o <<"&">>) \o <<k, "=", Head(v)>>,
                     k, Tail(v))

RECURSIVE QueryString(_, _, _)
QueryString(q, queries, order) ==
    IF order = << >>
    THEN q
    ELSE QueryString(QueryValues(q, Head(order), queries[Head(order)]), queries, Tail(order))

\* strings.ReplaceAll on token sequences (old is never empty: it starts with ":").
RECURSIVE ReplaceAll(_, _, _)
ReplaceAll(s, old, new) ==
    IF Len(s) < Len(old)
    THEN s
    ELSE IF SubSeq(s, 1, Len(old)) = old
         THEN new \o ReplaceAll(SubSeq(s, Len(old) + 1, Len(s)), old, new)
         ELSE <<Head(s)>> \o ReplaceAll(Tail(s), old, new)

\* A parameter name as the tokens a path is made of: "idx" is "id" and "x".
Tokens(k) ==
    CASE k = "id" -> <<"id">>
      [] k = "idx" -> <<"id", "x">>
      [] OTHER -> <<k>>

\* The params loop of build: ":"+k is replaced by v, one key after the other.
\* A value is one token.
RECURSIVE ResolvePath(_, _, _)
ResolvePath(p, params, order) ==
    IF order = << >>
    THEN p
    ELSE ResolvePath(ReplaceAll(p, <<":">> \o Tokens(Head(order)), <<params[Head(order)]>>),
                     params, Tail(order))

\* textproto.CanonicalMIMEHeaderKey on the header names of the model.
CanonicalHeaderKey(k) ==
    CASE k = "h" -> "H"
      [] k = "content-type" -> "Content-Type"
      [] OTHER -> k

\* http.Header.Add
HeaderAdd(h, k, v) ==
    LET ck == CanonicalHeaderKey(k)
    IN  IF ck \in DOMAIN h THEN MapPut(h, ck, Append(h[ck], v)) ELSE MapPut(h, ck, <<v>>)

RECURSIVE HeaderAddAll(_, _, _)
HeaderAddAll(h, k, v) ==
    IF v = << >> THEN h ELSE HeaderAddAll(HeaderAdd(h, k, Head(v)), k, Tail(v))

\* The header loop of build.
RECURSIVE ApplyHeaders(_, _, _)
ApplyHeaders(h, headers, order) ==
    IF order = << >>
    THEN h
    ELSE ApplyHeaders(HeaderAddAll(h, Head(order), headers[Head(order)]), headers, Tail(order))

\* http.NewRequest refuses a method that is not a token and a URL that does
\* not parse; of the URLs the model builds only a malformed scheme fails.
ValidMethods == {"GET", "POST", "PUT", "PATCH", "DELETE", "HEAD", "CONNECT", "OPTIONS", "TRACE"}
ValidSchemes == {"http", "https"}
ErrInvalidMethod == "net/http: invalid method"
ErrParseURL == "parse: first path segment in URL cannot contain colon"

NilRequest == [isNil |-> TRUE]

\* build, with the orders in which the three range loops visit their maps.
build(r, queryOrder, paramOrder, headerOrder) ==
    LET q == QueryString(<< >>, r.queries, queryOrder)
        p == ResolvePath(r.path, r.params, paramOrder)
        url == <<r.protocol, "://", r.host>> \o p \o q
    IN  IF r.method \notin ValidMethods
        THEN [req |-> NilRequest, err |-> ErrInvalidMethod]
        ELSE IF r.protocol \notin ValidSchemes
        THEN [req |-> NilRequest, err |-> ErrParseURL]
        ELSE [req |-> [isNil |-> FALSE,
                       ctx |-> IF r.ctx # Nil THEN r.ctx ELSE "Background",
                       Method |-> r.method,
                       URL |-> url,
                       Body |-> r.body,
                       Header |-> ApplyHeaders(EmptyMap, r.headers, headerOrder)],
              err |-> Nil]

\* request.New: the results it can produce, one per choice of range orders;
\* r is the Builder as the option loop left it.
RequestNew(host, options) ==
    LET a == ApplyOptions(NewBuilder(host), options)
    IN  IF a.err # Nil
        THEN {[req |-> NilRequest, err |-> a.err, r |-> a.r]}
        ELSE {[req |-> b.req, err |-> b.err, r |-> a.r] :
                b \in {build(a.r, qo, po, ho) :
                         qo \in Perms(DOMAIN a.r.queries),
                         po \in Perms(DOMAIN a.r.params),
                         ho \in Perms(DOMAIN a.r.headers)}}

(***************************************************************************)
(* What a dispatcher is given: a *http.Response, possibly nil.  A body is  *)
(* the bytes its stream yields and the error its Read reports, if any.     *)
(***************************************************************************)
NilResponse == [isNil |-> TRUE, StatusCode |-> 0, Body |-> Nil]

HttpResponse(status, body) == [isNil |-> FALSE, StatusCode |-> status, Body |-> body]

\* Mutant: a failed read is taken for the end of the stream.
ReadAllIgnoreErr(body) == [data |-> body.data, err |-> Nil]

\* ioutil.ReadAll
ReadAll(body) ==
    IF body.readErr # Nil
    THEN [data |-> "", err |-> body.readErr]
    ELSE [data |-> body.data, err |-> Nil]

(***************************************************************************)
(* package responder: the strict dispatcher                                *)
(***************************************************************************)
ErrNoHttpResponse == "connector/responder: no http response"
ErrNoResponseHandler == "connector/responder: no response handler"

\* A nil BodyParser.
NilParser == [kind |-> "nil"]

\* A BodyParser written by the caller; the ones of the model return a fixed
\* (value, error) pair, as the parsers of the tests do.
BodyParser(id, value, err) == [kind |-> "func", id |-> id, value |-> value, err |-> err]

\* Calling a BodyParser on a body: the (any, error) it returns.
CallParser(f, body) ==
    CASE f.kind = "func"   -> [value |-> f.value, err |-> f.err]
      [] f.kind = "Status" -> [value |-> Nil, err |-> Nil]
      [] f.kind = "String" ->
            LET d == ReadAll(body)
            IN  IF d.err # Nil
                THEN [value |-> Nil, err |-> d.err]
                ELSE [value |-> d.data, err |-> Nil]

\* One call of a parser or handler, as the dispatcher made it.
Invocation(f, arg) == [f |-> f, arg |-> arg]

ResponderFor(r, status, f) == [r EXCEPT !.responders = MapPut(r.responders, status, f)]

ResponderDefault(r, f) == [r EXCEPT !.defResponder = f]

\* Mutant: Status registers nothing.
ResponderStatusNoop(r, status) == r

ResponderStatus(r, status) ==
    [r EXCEPT !.responders = MapPut(r.responders, status, [kind |-> "Status", id |-> status])]

ResponderString(r, status) ==
    [r EXCEPT !.responders = MapPut(r.responders, status, [kind |-> "String", id |-> status])]

ApplyResponderOption(o, r) ==
    CASE o.op = "For"     -> ResponderFor(r, o.status, o.f)
      [] o.op = "Default" -> ResponderDefault(r, o.f)
      [] o.op = "Status"  -> ResponderStatus(r, o.status)
      [] o.op = "String"  -> ResponderString(r, o.status)

RECURSIVE ApplyResponderOptions(_, _)
ApplyResponderOptions(r, options) ==
    IF options = << >>
    THEN r
    ELSE ApplyResponderOptions(ApplyResponderOption(Head(options), r), Tail(options))

\* responder.New
ResponderNew(options) ==
    ApplyResponderOptions([responders |-> EmptyMap, defResponder |-> NilParser], options)

\* The &Response{Err: err} literals of Respond: every other field is zero.
ErrResponse(err) ==
    [out |-> [Status |-> 0, Body |-> Nil, HttpResponse |-> NilResponse, Err |-> err],
     invoked |-> << >>]

\* The two branches of Respond that call a parser f on the body and wrap
\* what it returns.
ParsedResponse(f, httpRes) ==
    LET b == CallParser(f, httpRes.Body)
    IN  [out |-> [Status |-> httpRes.StatusCode, HttpResponse |-> httpRes,
                  Body |-> b.value, Err |-> b.err],
         invoked |-> <<Invocation(f, httpRes.Body)>>]

\* Mutant: no nil check; a nil response is looked up like any other.
ResponderRespondNoNilCheck(r, httpRes) ==
    IF httpRes.StatusCode \in DOMAIN r.responders
    THEN ParsedResponse(r.responders[httpRes.StatusCode], httpRes)
    ELSE IF r.defResponder # NilParser
    THEN ParsedResponse(r.defResponder, httpRes)
    ELSE ErrResponse(ErrNoResponseHandler)

\* Mutant: a registered default takes precedence over the status parser.
ResponderRespondDefaultFirst(r, httpRes) ==
    IF httpRes.isNil
    THEN ErrResponse(ErrNoHttpResponse)
    ELSE IF r.defResponder # NilParser
    THEN ParsedResponse(r.defResponder, httpRes)
    ELSE IF httpRes.StatusCode \in DOMAIN r.responders
    THEN ParsedResponse(r.responders[httpRes.StatusCode], httpRes)
    ELSE ErrResponse(ErrNoResponseHandler)

\* Mutant: the default parser is never consulted.
ResponderRespondNoDefault(r, httpRes) ==
    IF httpRes.isNil
    THEN ErrResponse(ErrNoHttpResponse)
    ELSE IF httpRes.StatusCode \in DOMAIN r.responders
    THEN ParsedResponse(r.responders[httpRes.StatusCode], httpRes)
    ELSE ErrResponse(ErrNoResponseHandler)

\* Mutant: an unhandled status is a silent success, as in package response.
ResponderRespondSilent(r, httpRes) ==
    IF httpRes.isNil
    THEN ErrResponse(ErrNoHttpResponse)
    ELSE IF httpRes.StatusCode \in DOMAIN r.responders
    THEN ParsedResponse(r.responders[httpRes.StatusCode], httpRes)
    ELSE IF r.defResponder # NilParser
    THEN ParsedResponse(r.defResponder, httpRes)
    ELSE ErrResponse(Nil)

\* (*Responder).Respond of package responder: the *Response it returns and
\* the parser calls it makes.
ResponderRespond(r, httpRes) ==
    IF httpRes.isNil
    THEN ErrResponse(ErrNoHttpResponse)
    ELSE IF httpRes.StatusCode \in DOMAIN r.responders
    THEN ParsedResponse(r.responders[httpRes.StatusCode], httpRes)
    ELSE IF r.defResponder # NilParser
    THEN ParsedResponse(r.defResponder, httpRes)
    ELSE ErrResponse(ErrNoResponseHandler)

(***************************************************************************)
(* package response: the lenient dispatcher, the one whose Respond has the *)
(* signature of connector.Responder                                        *)
(***************************************************************************)
\* A nil Func.
NilFunc == [kind |-> "nil"]

\* A Func written by the caller, returning a fixed error (or nil).
Func(id, err) == [kind |-> "func", id |-> id, err |-> err]

\* The documents json.Unmarshal accepts, and what they decode to.
JsonData == "{\"name\":\"name field\"}"
ErrJsonSyntax == "json: invalid character"
JsonValid(data) == data = JsonData
JsonDecode(data) == "name field"

\* Calling a Func on a Response: the error it returns and what it leaves in
\* the slot its registration captured.
CallFunc(f, response, slot) ==
    CASE f.kind = "func"      -> [err |-> f.err, slot |-> slot]
      [] f.kind = "ForStatus" -> [err |-> Nil, slot |-> slot]
      [] f.kind = "ForString" ->
            LET d == ReadAll(response.HttpResponse.Body)
            IN  IF d.err # Nil
                THEN [err |-> d.err, slot |-> slot]
                ELSE [err |-> Nil, slot |-> d.data]
      [] f.kind = "ForJson" ->
            LET d == ReadAll(response.HttpResponse.Body)
            IN  IF d.err # Nil
                THEN [err |-> d.err, slot |-> slot]
                ELSE IF JsonValid(d.data)
                THEN [err |-> Nil, slot |-> JsonDecode(d.data)]
                ELSE [err |-> ErrJsonSyntax, slot |-> slot]

ResponseFor(r, status, f) ==
    Applied([r EXCEPT !.responders = MapPut(r.responders, status, f)], Nil)

ForDefault(r, f) == Applied([r EXCEPT !.defResponder = f], Nil)

ForStatus(r, status) ==
    Applied([r EXCEPT !.responders =
                MapPut(r.responders, status, [kind |-> "ForStatus", id |-> status])], Nil)

ForString(r, status) ==
    Applied([r EXCEPT !.responders =
                MapPut(r.responders, status, [kind |-> "ForString", id |-> status])], Nil)

ForJson(r, status) ==
    Applied([r EXCEPT !.responders =
                MapPut(r.responders, status, [kind |-> "ForJson", id |-> status])], Nil)

ApplyResponseOption(o, r) ==
    CASE o.op = "For"        -> ResponseFor(r, o.status, o.f)
      [] o.op = "ForDefault" -> ForDefault(r, o.f)
      [] o.op = "ForStatus"  -> ForStatus(r, o.status)
      [] o.op = "ForString"  -> ForString(r, o.status)
      [] o.op = "ForJson"    -> ForJson(r, o.status)
      [] o.op = "Custom"     -> Applied(r, o.err)

\* The zero Responder that NewResponder returns with an error.
ZeroResponder == [responders |-> EmptyMap, defResponder |-> NilFunc]

RECURSIVE ApplyResponseOptions(_, _)
ApplyResponseOptions(r, options) ==
    IF options = << >>
    THEN Applied(r, Nil)
    ELSE LET a == ApplyResponseOption(Head(options), r)
         IN  IF a.err # Nil
             THEN Applied(ZeroResponder, a.err)
             ELSE ApplyResponseOptions(a.r, Tail(options))

\* response.NewResponder
NewResponder(options) ==
    ApplyResponseOptions([responders |-> EmptyMap, defResponder |-> NilFunc], options)

\* Respond without the nil-response return: a nil response goes to the
\* default handler when one is registered.
ResponseRespondNoNilCheck(r, httpRes, slot) ==
    LET response == [HttpResponse |-> httpRes]
    IN  IF ~httpRes.isNil /\ httpRes.StatusCode \in DOMAIN r.responders
        THEN LET f == r.responders[httpRes.StatusCode]
                 e == CallFunc(f, response, slot)
             IN  [err |-> e.err, invoked |-> <<Invocation(f, response)>>, slot |-> e.slot]
        ELSE IF r.defResponder # NilFunc
        THEN LET e == CallFunc(r.defResponder, response, slot)
             IN  [err |-> e.err, invoked |-> <<Invocation(r.defResponder, response)>>,
                  slot |-> e.slot]
        ELSE [err |-> Nil, invoked |-> << >>, slot |-> slot]

\* (*Responder).Respond of package response: the error it returns, the
\* handler calls it makes and what is left in the caller's slot.
ResponseRespond(r, httpRes, slot) ==
    IF httpRes.isNil
    THEN [err |-> Nil, invoked |-> << >>, slot |-> slot]
    ELSE LET response == [HttpResponse |-> httpRes]
         IN  IF httpRes.StatusCode \in DOMAIN r.responders
             THEN LET f == r.responders[httpRes.StatusCode]
                      e == CallFunc(f, response, slot)
                  IN  [err |-> e.err, invoked |-> <<Invocation(f, response)>>, slot |-> e.slot]
             ELSE IF r.defResponder # NilFunc
             THEN LET e == CallFunc(r.defResponder, response, slot)
                  IN  [err |-> e.err, invoked |-> <<Invocation(r.defResponder, response)>>,
                       slot |-> e.slot]
             ELSE [err |-> Nil, invoked |-> << >>, slot |-> slot]

(***************************************************************************)
(* package connector                                                       *)
(***************************************************************************)
\* Connector{}: what connector.New returns with an error.
EmptyConnector ==
    [host |-> "", generalOption |-> << >>, pathOptions |-> EmptyMap, webClient |-> Nil]

WithGeneral(cn, o) == Applied([cn EXCEPT !.generalOption = cn.generalOption \o o], Nil)

ConnectorWithPath(cn, path, o) ==
    Applied([cn EXCEPT !.pathOptions = MapPut(cn.pathOptions, path, o)], Nil)

WithPaths(cn, po) == Applied([cn EXCEPT !.pathOptions = po], Nil)

ApplyConnectorOption(o, cn) ==
    CASE o.op = "WithGeneral" -> WithGeneral(cn, o.o)
      [] o.op = "WithPath"    -> ConnectorWithPath(cn, o.path, o.o)
      [] o.op = "WithPaths"   -> WithPaths(cn, o.po)
      [] o.op = "Custom"      -> Applied(cn, o.err)

\* The caller's side of the path-default map.  WithPaths stores the map it
\* is given, not a copy: from then on c.pathOptions and the caller's map are
\* one object (shared), and what WithPath writes to c.pathOptions is written
\* to the caller's map.
NoCallerMap == [passed |-> FALSE, shared |-> FALSE, m |-> EmptyMap]

CallerMapAfter(o, cm) ==
    CASE o.op = "WithPaths" -> [passed |-> TRUE, shared |-> TRUE, m |-> o.po]
      [] o.op = "WithPath" /\ cm.shared -> [cm EXCEPT !.m = MapPut(cm.m, o.path, o.o)]
      [] OTHER -> cm

\* What connector.New leaves: the Connector and error it returns, the local
\* Connector its loop worked on, and the caller's map.
Constructed(r, err, local, cm) == [r |-> r, err |-> err, local |-> local, cm |-> cm]

\* Mutant: the loop goes on after a failing option and reports the first
\* error at the end.
RECURSIVE ApplyConnectorOptionsNoAbort(_, _, _)
ApplyConnectorOptionsNoAbort(cn, cm, options) ==
    IF options = << >>
    THEN Constructed(cn, Nil, cn, cm)
    ELSE LET a == ApplyConnectorOption(Head(options), cn)
             b == ApplyConnectorOptionsNoAbort(a.r, CallerMapAfter(Head(options), cm),
                                               Tail(options))
         IN  IF a.err # Nil \/ b.err # Nil
             THEN Constructed(EmptyConnector, IF a.err # Nil THEN a.err ELSE b.err,
                              b.local, [b.cm EXCEPT !.shared = FALSE])
             ELSE b

\* The option loop of connector.New: in order, returning Connector{} and the
\* error at the first option that fails.
RECURSIVE ApplyConnectorOptions(_, _, _)
ApplyConnectorOptions(cn, cm, options) ==
    IF options = << >>
    THEN Constructed(cn, Nil, cn, cm)
    ELSE LET a == ApplyConnectorOption(Head(options), cn)
         IN  IF a.err # Nil
             THEN Constructed(EmptyConnector, a.err, a.r, [cm EXCEPT !.shared = FALSE])
             ELSE ApplyConnectorOptions(a.r, CallerMapAfter(Head(options), cm), Tail(options))

\* connector.New
ConnectorNew(host, client, options) ==
    ApplyConnectorOptions([host |-> host, generalOption |-> << >>,
                           pathOptions |-> EmptyMap, webClient |-> client],
                          NoCallerMap, options)

\* Mutant: the per-call options are appended before the path defaults.
ReqOptionsCallFirst(cn, path, options) ==
    <<[op |-> "WithPath", path |-> path]>>
        \o cn.generalOption
        \o options
        \o (IF path \in DOMAIN cn.pathOptions THEN cn.pathOptions[path] ELSE << >>)

\* Mutant: a path that is not registered gets no general options either.
ReqOptionsUnmappedBare(cn, path, options) ==
    <<[op |-> "WithPath", path |-> path]>>
        \o (IF path \in DOMAIN cn.pathOptions
            THEN cn.generalOption \o cn.pathOptions[path]
            ELSE << >>)
        \o options

\* The option list DoBuild hands to request.New.
ReqOptions(cn, path, options) ==
    <<[op |-> "WithPath", path |-> path]>>
        \o cn.generalOption
        \o (IF path \in DOMAIN cn.pathOptions THEN cn.pathOptions[path] ELSE << >>)
        \o options

(***************************************************************************)
(* The inputs the model draws from.                                        *)
(***************************************************************************)
Host == "defaultHost"
PathP == <<"/", "p">>
PathQ == <<"/", "q">>
Paths == {PathP, PathQ}
HeaderValues == {1, 2, 3}
ErrMocked == "mocked error"
ErrHandler == "handler error"
ErrRead == "expected error"
BadProtocol == "1http"

\* request options given to the connector and to DoBuild
ReqOptionPool ==
    {[op |-> "WithHeader", key |-> "H", value |-> v] : v \in HeaderValues}
        \cup {[op |-> "Custom", err |-> ErrMocked],
              [op |-> "WithProtocol", protocol |-> BadProtocol],
              [op |-> "WithPath", path |-> PathQ]}

\* options given to connector.New
ConnOptionPool ==
    {[op |-> "WithGeneral", o |-> <<o>>] : o \in ReqOptionPool}
        \cup {[op |-> "WithPath", path |-> PathP, o |-> os] :
                os \in SeqsUpTo(ReqOptionPool, 1)}
        \cup {[op |-> "WithPaths", po |-> EmptyMap],
              [op |-> "WithPaths",
               po |-> [x \in {PathP} |-> <<[op |-> "WithHeader", key |-> "H", value |-> 2]>>]],
              [op |-> "Custom", err |-> ErrMocked]}

BodyText == [data |-> "name field", readErr |-> Nil]
BodyJson == [data |-> JsonData, readErr |-> Nil]
BodyErr == [data |-> "", readErr |-> ErrRead]
Statuses == {200, 404}

\* what WebClient.Do may return: (response, error)
TransportOutcomes ==
    {[res |-> NilResponse, err |-> ErrMocked],
     [res |-> HttpResponse(200, BodyText), err |-> ErrMocked],
     [res |-> NilResponse, err |-> Nil],
     [res |-> HttpResponse(200, BodyText), err |-> Nil],
     [res |-> HttpResponse(404, BodyText), err |-> Nil]}

\* the responders handed to DoBuild
CallResponders ==
    {NewResponder(<< >>).r,
     NewResponder(<<[op |-> "For", status |-> 200, f |-> Func("f200", ErrHandler)],
                    [op |-> "ForDefault", f |-> Func("fdef", Nil)]>>).r}

NoReturn == "no return yet"
NoOutcome == [res |-> NilResponse, err |-> Nil]
NoCall == [path |-> << >>, responder |-> ZeroResponder, options |-> << >>]
NoSlot == "unset"

(***************************************************************************)
(* The connector as a state machine: New, then DoBuild calls one after the *)
(* other; a call runs DoBuild (concatenate, build), Do (transport),        *)
(* DoRespond (the responder.Respond call of Do) and Return.                *)
(***************************************************************************)
NoNewCall == [options |-> << >>, local |-> EmptyConnector]

ConnInit ==
    /\ c = EmptyConnector
    /\ pc = "new"
    /\ call = NoCall
    /\ req = NilRequest
    /\ clientRet = NoOutcome
    /\ ret = NoReturn
    /\ clientCalls = << >>
    /\ respondCalls = << >>
    /\ callerMap = NoCallerMap
    /\ newCall = NoNewCall

DispInit ==
    /\ pkg = "none"
    /\ rsp = ZeroResponder
    /\ out = [called |-> FALSE, newErr |-> Nil]
    /\ rspOptions = << >>
    /\ invoked = << >>
    /\ target = NoSlot

\* No request.New call is under way.
NoRequestCall ==
    [pc |-> "idle", options |-> << >>, r |-> NewBuilder(""), req |-> NilRequest, err |-> Nil]

ReqInit == rn = NoRequestCall

\* The concurrent callers of one connector.
Callers == {"a", "b"}

\* A caller before the connector exists.  conn is the Connector as
\* connector.New returned it to the callers.
NoProc == [pc |-> "new", conn |-> EmptyConnector, call |-> NoCall, req |-> NilRequest,
           clientRet |-> NoOutcome, ret |-> NoReturn]

ConcInit == procs = [p \in Callers |-> NoProc]

\* No DoBuild call has returned yet.
NoPrev == [made |-> FALSE, path |-> << >>, options |-> << >>, req |-> NilRequest]

HistInit == prev = NoPrev

Init == ConnInit /\ DispInit /\ ReqInit /\ ConcInit /\ HistInit

New ==
    /\ pc = "new"
    /\ \E options \in SeqsUpTo(ConnOptionPool, MaxConnOptions) :
         LET n == ConnectorNew(Host, "client", options)
         IN  /\ c' = n.r
             /\ ret' = n.err
             /\ pc' = IF n.err # Nil THEN "failed" ELSE "idle"
             /\ callerMap' = n.cm
             /\ newCall' = IF n.err # Nil
                           THEN [options |-> options, local |-> n.local]
                           ELSE NoNewCall
    /\ UNCHANGED <<histVars, call, req, clientRet, clientCalls, respondCalls, dispVars, reqVars, concVars, invoked, target>>

\* The error a connector with the strict path policy would return; the code
\* defines no such error.
ErrUnmappedPath == "connector: unmapped path"

\* Mutant: the error of request.New is dropped and the call goes on.
DoBuildIgnoreErr ==
    /\ pc = "idle"
    /\ \E path \in Paths, responder \in CallResponders,
          options \in SeqsUpTo(ReqOptionPool, MaxCallOptions) :
         \E n \in RequestNew(c.host, ReqOptions(c, path, options)) :
            /\ call' = [path |-> path, responder |-> responder, options |-> options]
            /\ req' = n.req
            /\ ret' = NoReturn
            /\ pc' = "do"
    /\ UNCHANGED <<histVars, c, clientRet, clientCalls, respondCalls, callerMap, newCall, dispVars, reqVars, concVars, invoked, target>>

\* Mutant: the strict path policy, a path must be registered.
DoBuildStrict ==
    /\ pc = "idle"
    /\ \E path \in Paths, responder \in CallResponders,
          options \in SeqsUpTo(ReqOptionPool, MaxCallOptions) :
         \E n \in RequestNew(c.host, ReqOptions(c, path, options)) :
            /\ call' = [path |-> path, responder |-> responder, options |-> options]
            /\ IF path \notin DOMAIN c.pathOptions
               THEN req' = NilRequest /\ ret' = ErrUnmappedPath /\ pc' = "done"
               ELSE /\ req' = n.req
                    /\ IF n.err # Nil
                       THEN ret' = n.err /\ pc' = "done"
                       ELSE ret' = NoReturn /\ pc' = "do"
    /\ UNCHANGED <<histVars, c, clientRet, clientCalls, respondCalls, callerMap, newCall, dispVars, reqVars, concVars, invoked, target>>

DoBuild ==
    /\ pc = "idle"
    /\ \E path \in Paths, responder \in CallResponders,
          options \in SeqsUpTo(ReqOptionPool, MaxCallOptions) :
         \E n \in RequestNew(c.host, ReqOptions(c, path, options)) :
            /\ call' = [path |-> path, responder |-> responder, options |-> options]
            /\ req' = n.req
            /\ IF n.err # Nil
               THEN ret' = n.err /\ pc' = "done"
               ELSE ret' = NoReturn /\ pc' = "do"
    /\ UNCHANGED <<histVars, c, clientRet, clientCalls, respondCalls, callerMap, newCall, dispVars, reqVars, concVars, invoked, target>>

\* Mutant: the transport's error is not looked at, the responder runs anyway.
DoIgnoreErr ==
    /\ pc = "do"
    /\ \E o \in TransportOutcomes :
         /\ clientCalls' = Append(clientCalls, req)
         /\ clientRet' = o
         /\ ret' = NoReturn
         /\ pc' = "respond"
    /\ UNCHANGED <<histVars, c, call, req, respondCalls, callerMap, newCall, dispVars, reqVars, concVars, invoked, target>>

Do ==
    /\ pc = "do"
    /\ \E o \in TransportOutcomes :
         /\ clientCalls' = Append(clientCalls, req)
         /\ clientRet' = o
         /\ IF o.err # Nil
            THEN ret' = o.err /\ pc' = "done"
            ELSE ret' = NoReturn /\ pc' = "respond"
    /\ UNCHANGED <<histVars, c, call, req, respondCalls, callerMap, newCall, dispVars, reqVars, concVars, invoked, target>>

\* Mutant: the responder's error is swallowed.
DoRespondSwallow ==
    /\ pc = "respond"
    /\ LET d == ResponseRespond(call.responder, clientRet.res, target)
       IN  /\ respondCalls' = Append(respondCalls, [res |-> clientRet.res, err |-> d.err])
           /\ invoked' = d.invoked
           /\ target' = d.slot
           /\ ret' = Nil
    /\ pc' = "done"
    /\ UNCHANGED <<histVars, c, call, req, clientRet, clientCalls, callerMap, newCall, dispVars, reqVars, concVars>>

DoRespond ==
    /\ pc = "respond"
    /\ LET d == ResponseRespond(call.responder, clientRet.res, target)
       IN  /\ respondCalls' = Append(respondCalls, [res |-> clientRet.res, err |-> d.err])
           /\ invoked' = d.invoked
           /\ target' = d.slot
           /\ ret' = d.err
    /\ pc' = "done"
    /\ UNCHANGED <<histVars, c, call, req, clientRet, clientCalls, callerMap, newCall, dispVars, reqVars, concVars>>

\* DoBuild returns to its caller: the call's request, response and logs are
\* gone, the connector stays.
Return ==
    /\ pc = "done"
    /\ pc' = "idle"
    /\ call' = NoCall
    /\ req' = NilRequest
    /\ clientRet' = NoOutcome
    /\ ret' = NoReturn
    /\ clientCalls' = << >>
    /\ respondCalls' = << >>
    /\ invoked' = << >>
    /\ UNCHANGED <<histVars, c, callerMap, newCall, dispVars, reqVars, concVars, target>>

\* The lists the caller writes into its map after construction.
MutationValues == {<< >>, <<[op |-> "WithHeader", key |-> "H", value |-> 3]>>}

\* delete(m, k) on a Go map.
MapDelete(m, k) == [x \in (DOMAIN m) \ {k} |-> m[x]]

\* Between two calls the caller writes to, or deletes from, the map it gave
\* WithPaths.  While that map is the connector's pathOptions the write is a
\* write to the connector's map.
MutateMap ==
    /\ pc = "idle"
    /\ callerMap.passed
    /\ \E path \in Paths :
         \E m \in {MapPut(callerMap.m, path, os) : os \in MutationValues}
                    \cup {MapDelete(callerMap.m, path)} :
            /\ callerMap' = [callerMap EXCEPT !.m = m]
            /\ c' = IF callerMap.shared THEN [c EXCEPT !.pathOptions = m] ELSE c
    /\ UNCHANGED <<histVars, pc, call, req, clientRet, ret, clientCalls, respondCalls, newCall,
                   dispVars, reqVars, concVars, invoked, target>>

Next == New \/ DoBuild \/ Do \/ DoRespond \/ Return \/ MutateMap

Spec == Init /\ [][Next]_vars

(***************************************************************************)
(* Properties of the connector, checked under Spec.                        *)
(***************************************************************************)
\* A DoBuild call has been made and its arguments are in `call`.
Called == pc \in {"do", "respond", "done"}

\* The latest call built its request.
Built == Called /\ ~req.isNil

\* The path-default options DoBuild finds for the path of the latest call.
PathDefaults == IF call.path \in DOMAIN c.pathOptions THEN c.pathOptions[call.path] ELSE << >>

\* General, then path-default, then per-call options of the latest call.
CallOptions == c.generalOption \o PathDefaults \o call.options

Decimal(v) == CASE v = 1 -> "1" [] v = 2 -> "2" [] v = 3 -> "3"

\* The values the WithHeader(key, _) options of a list add, in list order.
RECURSIVE HeaderValuesIn(_, _)
HeaderValuesIn(options, key) ==
    IF options = << >>
    THEN << >>
    ELSE (IF Head(options).op = "WithHeader" /\ Head(options).key = key
          THEN <<Decimal(Head(options).value)>>
          ELSE << >>) \o HeaderValuesIn(Tail(options), key)

\* The path set by the last WithPath option of a list, or else `path`.
RECURSIVE LastPath(_, _)
LastPath(options, path) ==
    IF options = << >>
    THEN path
    ELSE LastPath(Tail(options),
                  IF Head(options).op = "WithPath" THEN Head(options).path ELSE path)

\* The protocol set by the last WithProtocol option of a list, or else `protocol`.
RECURSIVE LastProtocol(_, _)
LastProtocol(options, protocol) ==
    IF options = << >>
    THEN protocol
    ELSE LastProtocol(Tail(options),
                      IF Head(options).op = "WithProtocol"
                      THEN Head(options).protocol ELSE protocol)

\* The error of the first failing option of a list, or Nil.
RECURSIVE FirstOptionErr(_)
FirstOptionErr(options) ==
    IF options = << >>
    THEN Nil
    ELSE IF Head(options).op = "Custom"
         THEN Head(options).err
         ELSE FirstOptionErr(Tail(options))

\* The error building from a list of options must end with, or Nil.
ExpectedBuildErr(options) ==
    IF FirstOptionErr(options) # Nil
    THEN FirstOptionErr(options)
    ELSE IF LastProtocol(options, "http") = BadProtocol THEN ErrParseURL ELSE Nil

H1 == [op |-> "WithHeader", key |-> "H", value |-> 1]
H2 == [op |-> "WithHeader", key |-> "H", value |-> 2]
H3 == [op |-> "WithHeader", key |-> "H", value |-> 3]

\* C1: DoBuild applies the path literal first, then the general options, then
\* the path-default options of the path, then the per-call options: the built
\* request carries under H the values the three lists add, in that order (so
\* general H=1, path-default H=2 and per-call H=3 give [1, 2, 3]), and its
\* path is the path literal unless a later WithPath option replaced it.
C1_OptionOrder ==
    Built =>
        LET hv == HeaderValuesIn(c.generalOption, "H")
                    \o HeaderValuesIn(PathDefaults, "H")
                    \o HeaderValuesIn(call.options, "H")
        IN  /\ IF hv = << >>
               THEN "H" \notin DOMAIN req.Header
               ELSE "H" \in DOMAIN req.Header /\ req.Header["H"] = hv
            /\ req.URL = <<"http", "://", Host>> \o LastPath(CallOptions, call.path)
            /\ (c.generalOption = <<H1>> /\ PathDefaults = <<H2>> /\ call.options = <<H3>>)
                  => req.Header["H"] = <<"1", "2", "3">>

C1_Witness ==
    /\ pc = "do"
    /\ c.generalOption = <<H1>>
    /\ call.path = PathP
    /\ PathDefaults = <<H2>>
    /\ call.options = <<H3>>
    /\ req.Header["H"] = <<"1", "2", "3">>

\* C2: when WebClient.Do reports an error, the call ends returning that same
\* error, Respond has not been invoked (nor any handler), and the transport
\* was called once, with the built request.
C2_TransportError ==
    (clientCalls # << >> /\ clientRet.err # Nil) =>
        /\ pc = "done"
        /\ ret = clientRet.err
        /\ respondCalls = << >>
        /\ invoked = << >>
        /\ clientCalls = <<req>>

C2_Witness ==
    /\ pc = "done"
    /\ clientCalls = <<req>>
    /\ clientRet = [res |-> HttpResponse(200, BodyText), err |-> ErrMocked]
    /\ ret = ErrMocked
    /\ call.responder.defResponder # NilFunc

\* C3: when one of the concatenated options fails, or the request cannot be
\* constructed, DoBuild returns that error and neither the transport nor the
\* responder is invoked.
C3_BuildFailure ==
    (Called /\ ExpectedBuildErr(CallOptions) # Nil) =>
        /\ pc = "done"
        /\ ret = ExpectedBuildErr(CallOptions)
        /\ req.isNil
        /\ clientCalls = << >>
        /\ respondCalls = << >>
        /\ invoked = << >>

C3_Witness ==
    /\ pc = "done"
    /\ call.options = <<[op |-> "Custom", err |-> ErrMocked]>>
    /\ c.generalOption = <<H1>>
    /\ ret = ErrMocked
    /\ clientCalls = << >>

\* C4: when the request builds and the transport returns no error, the call
\* ends with Respond invoked exactly once, on the response the transport
\* returned, and DoBuild returns what that Respond call returned.
C4_RespondOnce ==
    /\ Len(respondCalls) <= 1
    /\ (Called /\ clientCalls # << >> /\ clientRet.err = Nil) =>
          /\ pc \in {"respond", "done"}
          /\ pc = "done" =>
                /\ Len(respondCalls) = 1
                /\ respondCalls[1].res = clientRet.res
                /\ ret = respondCalls[1].err

C4_Witness ==
    /\ pc = "done"
    /\ clientRet = [res |-> HttpResponse(200, BodyText), err |-> Nil]
    /\ respondCalls = <<[res |-> HttpResponse(200, BodyText), err |-> ErrHandler]>>
    /\ ret = ErrHandler

\* C5 as claimed: a call for a path with no path-default entry returns an
\* "unmapped path" error and never invokes the transport.
C5_UnmappedPathRejected ==
    (Called /\ call.path \notin DOMAIN c.pathOptions) =>
        /\ pc = "done"
        /\ ret = ErrUnmappedPath
        /\ clientCalls = << >>

\* C5, amended: a call for a path with no path-default entry is not rejected:
\* it never returns an "unmapped path" error, and whenever the path literal,
\* the general options and the per-call options build without error the
\* transport is invoked with the built request.
C5_UnmappedPathProceeds ==
    (Called /\ call.path \notin DOMAIN c.pathOptions) =>
        /\ ret # ErrUnmappedPath
        /\ ExpectedBuildErr(c.generalOption \o call.options) = Nil =>
              /\ ~req.isNil
              /\ pc = "do" \/ clientCalls = <<req>>

C5_Witness ==
    /\ call.path = PathQ
    /\ PathQ \notin DOMAIN c.pathOptions
    /\ PathP \in DOMAIN c.pathOptions
    /\ pc = "done"
    /\ clientCalls = <<req>>
    /\ clientRet.err = Nil

(***************************************************************************)
(* The dispatchers as a state machine: a responder is built by one of the  *)
(* two packages and is then given responses, one Respond call at a time.   *)
(***************************************************************************)
ErrDecode == "decode error"

\* options given to responder.New
StrictOptionPool ==
    {[op |-> "For", status |-> 200, f |-> BodyParser("p200", "true", Nil)],
     [op |-> "For", status |-> 200, f |-> BodyParser("p200err", Nil, ErrDecode)],
     [op |-> "For", status |-> 404, f |-> BodyParser("p404", "not found", Nil)],
     [op |-> "Default", f |-> BodyParser("pdef", "default", Nil)],
     [op |-> "Default", f |-> BodyParser("pdeferr", Nil, ErrDecode)],
     [op |-> "Status", status |-> 200],
     [op |-> "String", status |-> 200]}

\* options given to response.NewResponder
LenientOptionPool ==
    {[op |-> "For", status |-> 200, f |-> Func("f200", Nil)],
     [op |-> "For", status |-> 200, f |-> Func("f200err", ErrHandler)],
     [op |-> "ForDefault", f |-> Func("fdef", Nil)],
     [op |-> "ForDefault", f |-> Func("fdeferr", ErrHandler)],
     [op |-> "ForStatus", status |-> 200],
     [op |-> "ForString", status |-> 200],
     [op |-> "ForJson", status |-> 200],
     [op |-> "Custom", err |-> ErrMocked]}

\* the responses handed to Respond
Responses ==
    {NilResponse} \cup {HttpResponse(s, b) : s \in Statuses, b \in {BodyText, BodyJson, BodyErr}}

DispatchNew ==
    /\ pkg = "none"
    /\ \E options \in SeqsUpTo(StrictOptionPool, MaxRespOptions) :
         /\ rsp' = ResponderNew(options)
         /\ rspOptions' = options
    /\ pkg' = "responder"
    /\ UNCHANGED <<histVars, out, invoked, target, connVars, reqVars, concVars>>

DispatchNewResponder ==
    /\ pkg = "none"
    /\ \E options \in SeqsUpTo(LenientOptionPool, MaxRespOptions) :
         LET n == NewResponder(options)
         IN  /\ rsp' = n.r
             /\ rspOptions' = options
             /\ out' = [called |-> FALSE, newErr |-> n.err]
             /\ pkg' = IF n.err # Nil THEN "failed" ELSE "response"
    /\ UNCHANGED <<histVars, invoked, target, connVars, reqVars, concVars>>

StrictRespond ==
    /\ pkg = "responder"
    /\ \E httpRes \in Responses :
         LET d == ResponderRespond(rsp, httpRes)
         IN  /\ out' = [called |-> TRUE, res |-> httpRes, result |-> d.out]
             /\ invoked' = d.invoked
    /\ UNCHANGED <<histVars, pkg, rsp, rspOptions, target, connVars, reqVars, concVars>>

LenientRespond ==
    /\ pkg = "response"
    /\ \E httpRes \in Responses :
         LET d == ResponseRespond(rsp, httpRes, target)
         IN  /\ out' = [called |-> TRUE, res |-> httpRes, result |-> [err |-> d.err]]
             /\ invoked' = d.invoked
             /\ target' = d.slot
    /\ UNCHANGED <<histVars, pkg, rsp, rspOptions, connVars, reqVars, concVars>>

DispatchNext == DispatchNew \/ DispatchNewResponder \/ StrictRespond \/ LenientRespond

SpecDispatch == Init /\ [][DispatchNext]_vars

(***************************************************************************)
(* Properties of the dispatchers, checked under SpecDispatch.              *)
(***************************************************************************)
\* The strict dispatcher has answered a Respond call.
StrictAnswered == pkg = "responder" /\ out.called

\* The parser or handler the responder under test holds for a status.
RegisteredFor(status) ==
    IF status \in DOMAIN rsp.responders THEN rsp.responders[status] ELSE rsp.defResponder

\* The error a parser or handler of the model returns on a body, or Nil.
ExpectedParserErr(f, body) ==
    CASE f.kind = "func" -> f.err
      [] f.kind \in {"Status", "ForStatus"} -> Nil
      [] f.kind \in {"String", "ForString"} -> body.readErr
      [] f.kind = "ForJson" ->
            IF body.readErr # Nil
            THEN body.readErr
            ELSE IF body.data = JsonData THEN Nil ELSE ErrJsonSyntax

\* C6: the strict Respond on a nil response invokes no parser, neither a
\* status parser nor the default, and returns Err = ErrNoHttpResponse,
\* whatever is registered.
C6_NilResponse ==
    (StrictAnswered /\ out.res.isNil) =>
        /\ invoked = << >>
        /\ out.result.Err = ErrNoHttpResponse

C6_Witness ==
    /\ StrictAnswered
    /\ out.res.isNil
    /\ rsp.defResponder # NilParser
    /\ DOMAIN rsp.responders # {}
    /\ out.result.Err = ErrNoHttpResponse

\* C7: for a non-nil response whose status has a registered parser, the
\* strict Respond invokes that parser exactly once, on the response body,
\* returns its (value, error) as Body and Err, and does not invoke the
\* default parser.
C7_StatusParser ==
    (StrictAnswered /\ ~out.res.isNil /\ out.res.StatusCode \in DOMAIN rsp.responders) =>
        LET f == rsp.responders[out.res.StatusCode]
            b == CallParser(f, out.res.Body)
        IN  /\ invoked = <<Invocation(f, out.res.Body)>>
            /\ out.result.Body = b.value
            /\ out.result.Err = b.err
            /\ \A i \in DOMAIN invoked : invoked[i].f # rsp.defResponder

C7_Witness ==
    /\ StrictAnswered
    /\ out.res = HttpResponse(200, BodyText)
    /\ 200 \in DOMAIN rsp.responders
    /\ rsp.responders[200] = BodyParser("p200", "true", Nil)
    /\ rsp.defResponder = BodyParser("pdef", "default", Nil)
    /\ Len(invoked) = 1
    /\ out.result.Body = "true"
    /\ out.result.Err = Nil

\* C8: for a non-nil response whose status has no registered parser, with a
\* default parser registered, the strict Respond invokes the default parser
\* exactly once and returns its (value, error); no status parser is invoked.
C8_DefaultParser ==
    (/\ StrictAnswered
     /\ ~out.res.isNil
     /\ out.res.StatusCode \notin DOMAIN rsp.responders
     /\ rsp.defResponder # NilParser) =>
        LET b == CallParser(rsp.defResponder, out.res.Body)
        IN  /\ invoked = <<Invocation(rsp.defResponder, out.res.Body)>>
            /\ out.result.Body = b.value
            /\ out.result.Err = b.err
            /\ \A i \in DOMAIN invoked, s \in DOMAIN rsp.responders :
                  invoked[i].f # rsp.responders[s]

C8_Witness ==
    /\ StrictAnswered
    /\ out.res = HttpResponse(404, BodyText)
    /\ DOMAIN rsp.responders = {200}
    /\ rsp.defResponder = BodyParser("pdef", "default", Nil)
    /\ Len(invoked) = 1
    /\ out.result.Body = "default"
    /\ out.result.Err = Nil

\* C9: for a non-nil response whose status has no registered parser, with no
\* default parser registered, the strict Respond returns Err =
\* ErrNoResponseHandler and invokes no parser.
C9_NoHandler ==
    (/\ StrictAnswered
     /\ ~out.res.isNil
     /\ out.res.StatusCode \notin DOMAIN rsp.responders
     /\ rsp.defResponder = NilParser) =>
        /\ out.result.Err = ErrNoResponseHandler
        /\ invoked = << >>

C9_Witness ==
    /\ StrictAnswered
    /\ out.res = HttpResponse(404, BodyText)
    /\ DOMAIN rsp.responders = {200}
    /\ rsp.defResponder = NilParser
    /\ out.result.Err = ErrNoResponseHandler

\* C10: when the parser the dispatcher selects returns an error (a decode or
\* a body-read failure), that same error is the result's Err (strict) or the
\* returned error (lenient), and the parser was invoked once only.
C10_ParserError ==
    (/\ pkg \in {"responder", "response"}
     /\ out.called
     /\ ~out.res.isNil
     /\ RegisteredFor(out.res.StatusCode).kind # "nil") =>
        LET f == RegisteredFor(out.res.StatusCode)
            e == ExpectedParserErr(f, out.res.Body)
        IN  e # Nil =>
              /\ Len(invoked) = 1
              /\ invoked[1].f = f
              /\ IF pkg = "responder" THEN out.result.Err = e ELSE out.result.err = e

C10_Witness ==
    /\ StrictAnswered
    /\ out.res = HttpResponse(200, BodyErr)
    /\ 200 \in DOMAIN rsp.responders
    /\ rsp.responders[200].kind = "String"
    /\ Len(invoked) = 1
    /\ out.result.Err = ErrRead
    /\ out.result.Body = Nil

\* The last option of a list that registers something under a status, or
\* NoRegistration.
NoRegistration == [op |-> "none"]

RECURSIVE LastRegistration(_, _, _)
LastRegistration(options, status, found) ==
    IF options = << >>
    THEN found
    ELSE LastRegistration(Tail(options), status,
                          IF /\ Head(options).op \in {"For", "Status", "String",
                                                      "ForStatus", "ForString", "ForJson"}
                             /\ Head(options).status = status
                          THEN Head(options) ELSE found)

\* C11: when the registration in force for status s is a status-only one
\* (Status in package responder, ForStatus in package response), a response
\* with status s is handled: one parser runs and it is not the default,
\* the dispatch reports no error (not the no-handler error either) and, in
\* the strict dispatcher, the result carries no parsed value.
C11_StatusOnly ==
    (/\ pkg \in {"responder", "response"}
     /\ out.called
     /\ ~out.res.isNil
     /\ LastRegistration(rspOptions, out.res.StatusCode, NoRegistration).op
            \in {"Status", "ForStatus"}) =>
        /\ Len(invoked) = 1
        /\ invoked[1].f # rsp.defResponder
        /\ IF pkg = "responder"
           THEN out.result.Err = Nil /\ out.result.Body = Nil
           ELSE out.result.err = Nil

C11_Witness ==
    /\ StrictAnswered
    /\ rspOptions = <<[op |-> "Default", f |-> BodyParser("pdef", "default", Nil)],
                      [op |-> "Status", status |-> 200]>>
    /\ out.res = HttpResponse(200, BodyText)
    /\ Len(invoked) = 1
    /\ out.result.Err = Nil
    /\ out.result.Body = Nil

(***************************************************************************)
(* The request builder as a state machine: request.New is called with a    *)
(* list of options and returns; then it is called again.                   *)
(***************************************************************************)
KeyId == "id"
KeyIdx == "idx"
PathIdId == <<"/", ":", "id", "/", ":", "id">>  \* "/:id/:id"
PathIdx == <<"/", ":", "id", "x">>              \* "/:idx"

\* options given to request.New
BuilderOptionPool ==
    {[op |-> "WithMethod", method |-> m] : m \in {MethodPost, "PUT"}}
        \cup {[op |-> "WithProtocol", protocol |-> x] : x \in {"https", BadProtocol}}
        \cup {[op |-> "WithPath", path |-> x] : x \in {PathIdId, PathIdx}}
        \cup {[op |-> "WithParam", key |-> KeyId, value |-> 1],
              [op |-> "WithParam", key |-> KeyIdx, value |-> 2],
              [op |-> "WithHeader", key |-> "H", value |-> 1],
              [op |-> "WithHeader", key |-> "H", value |-> 2],
              [op |-> "WithHeader", key |-> "h", value |-> 3],
              [op |-> "WithHeader", key |-> headerContentType, value |-> 1],
              [op |-> "WithHeader", key |-> "content-type", value |-> 2],
              [op |-> "WithQuery", key |-> "q", value |-> 1],
              [op |-> "WithQuery", key |-> "q", value |-> 2],
              [op |-> "WithQuery", key |-> "k", value |-> 3],
              [op |-> "WithQueries", queries |-> [x \in {"q"} |-> <<2, 1>>]],
              [op |-> "WithString", body |-> "text"],
              [op |-> "WithJson", body |-> StructValue],
              [op |-> "WithJson", body |-> ChanValue],
              [op |-> "WithXml", body |-> StructValue],
              [op |-> "Custom", err |-> ErrMocked]}

RequestCall ==
    /\ rn.pc = "idle"
    /\ \E options \in SeqsUpTo(BuilderOptionPool, MaxBuilderOptions) :
         \E n \in RequestNew(Host, options) :
            rn' = [pc |-> "returned", options |-> options, r |-> n.r,
                   req |-> n.req, err |-> n.err]
    /\ UNCHANGED <<histVars, connVars, dispVars, concVars, invoked, target>>

RequestReturn ==
    /\ rn.pc = "returned"
    /\ rn' = NoRequestCall
    /\ UNCHANGED <<histVars, connVars, dispVars, concVars, invoked, target>>

RequestNext == RequestCall \/ RequestReturn

SpecRequest == Init /\ [][RequestNext]_vars

(***************************************************************************)
(* Properties of the request builder, checked under SpecRequest.  What a   *)
(* list of options must leave in each field is computed here from the list *)
(* alone.                                                                  *)
(***************************************************************************)
\* request.New has returned.
Returned == rn.pc = "returned"

\* request.New has returned a request.
RequestBuilt == Returned /\ rn.err = Nil

\* The error an option of the pool returns, or Nil.
OptionErr(o) ==
    CASE o.op = "Custom" -> o.err
      [] o.op = "WithJson" /\ o.body = ChanValue -> ErrJsonUnsupported
      [] o.op = "WithXml" /\ o.body = ChanValue -> ErrXmlUnsupported
      [] OTHER -> Nil

\* The index of the first failing option of a list, or 0.
FailIndex(options) ==
    IF \E i \in DOMAIN options : OptionErr(options[i]) # Nil
    THEN CHOOSE i \in DOMAIN options :
            /\ OptionErr(options[i]) # Nil
            /\ \A j \in 1..(i - 1) : OptionErr(options[j]) = Nil
    ELSE 0

\* The options of a list up to its first failing option, that one excluded.
BeforeFailure(options) ==
    IF FailIndex(options) = 0 THEN options ELSE SubSeq(options, 1, FailIndex(options) - 1)

\* The indices of the options of a list that set a single-valued field.
Setters(options, ops) == {i \in DOMAIN options : options[i].op \in ops}

\* The last index of a non-empty set of indices.
Last(S) == CHOOSE i \in S : \A j \in S : j <= i

LastMethod(options, method) ==
    LET S == Setters(options, {"WithMethod"})
    IN  IF S = {} THEN method ELSE options[Last(S)].method

\* The bytes a body option makes the body of.
BodyOf(o) ==
    CASE o.op \in {"WithBody", "WithString"} -> o.body
      [] o.op = "WithJson" -> "{\"field\":\"myField\"}"
      [] o.op = "WithXml" -> "<obj><field>myField</field></obj>"

LastBody(options, body) ==
    LET S == Setters(options, {"WithBody", "WithString", "WithJson", "WithXml"})
    IN  IF S = {} THEN body ELSE BodyOf(options[Last(S)])

DecimalAll(values) == [i \in DOMAIN values |-> Decimal(values[i])]

\* The values the options of a list add under a header key, in list order.
RECURSIVE AddedHeaderValues(_, _)
AddedHeaderValues(options, key) ==
    IF options = << >>
    THEN << >>
    ELSE LET o == Head(options)
         IN  (CASE o.op = "WithHeader" /\ o.key = key -> <<Decimal(o.value)>>
                [] o.op = "WithHeaders" /\ key \in DOMAIN o.headers -> DecimalAll(o.headers[key])
                [] OTHER -> << >>) \o AddedHeaderValues(Tail(options), key)

\* The content type a body option declares.
ContentTypeOf(o) == IF o.op = "WithJson" THEN "application/json" ELSE "application/xml"

\* The values a list of options leaves under a header key: those added
\* under it, except that under Content-Type a JSON or XML body option
\* replaces what is there by its own content type.
KeptHeaderValues(options, key) ==
    LET S == Setters(options, {"WithJson", "WithXml"})
    IN  IF key # headerContentType \/ S = {}
        THEN AddedHeaderValues(options, key)
        ELSE <<ContentTypeOf(options[Last(S)])>>
                \o AddedHeaderValues(SubSeq(options, Last(S) + 1, Len(options)), key)

\* The values the options of a list add under a query key, in list order.
RECURSIVE AddedQueryValues(_, _)
AddedQueryValues(options, key) ==
    IF options = << >>
    THEN << >>
    ELSE LET o == Head(options)
         IN  (CASE o.op = "WithQuery" /\ o.key = key -> <<Decimal(o.value)>>
                [] o.op = "WithQueries" /\ key \in DOMAIN o.queries -> DecimalAll(o.queries[key])
                [] OTHER -> << >>) \o AddedQueryValues(Tail(options), key)

\* The value the options of a list bind a path parameter to, or Nil.
BoundParam(options, key) ==
    LET S == {i \in DOMAIN options : options[i].op = "WithParam" /\ options[i].key = key}
    IN  IF S = {} THEN Nil ELSE Decimal(options[Last(S)].value)

HeaderKeys == {"H", "h", headerContentType, "content-type"}
QueryKeys == {"q", "k"}
ParamKeys == {KeyId, KeyIdx}

\* The list a map of lists holds under a key, empty when the key is absent.
ValuesAt(m, k) == IF k \in DOMAIN m THEN m[k] ELSE << >>

\* C12: request.New applies its options in the order given and stops at the
\* first one that fails: it returns that option's error and no request, and
\* the Builder holds what the options before the failing one set, nothing of
\* what an option after it would set.
C12_StopsAtFirstError ==
    Returned =>
        LET i == FailIndex(rn.options)
            applied == BeforeFailure(rn.options)
        IN  /\ i # 0 => (rn.err = OptionErr(rn.options[i]) /\ rn.req.isNil)
            /\ rn.r.method = LastMethod(applied, MethodGet)
            /\ rn.r.protocol = LastProtocol(applied, "http")
            /\ rn.r.path = LastPath(applied, << >>)
            /\ rn.r.body = LastBody(applied, Nil)
            /\ \A k \in HeaderKeys : ValuesAt(rn.r.headers, k) = KeptHeaderValues(applied, k)
            /\ \A k \in QueryKeys : ValuesAt(rn.r.queries, k) = AddedQueryValues(applied, k)
            /\ \A k \in ParamKeys :
                  IF k \in DOMAIN rn.r.params
                  THEN rn.r.params[k] = BoundParam(applied, k)
                  ELSE BoundParam(applied, k) = Nil

C12_Witness ==
    /\ Returned
    /\ rn.options = <<[op |-> "WithHeader", key |-> "H", value |-> 1],
                      [op |-> "WithJson", body |-> ChanValue],
                      [op |-> "WithHeader", key |-> "H", value |-> 2]>>
    /\ rn.err = ErrJsonUnsupported
    /\ rn.req.isNil
    /\ rn.r.headers["H"] = <<"1">>

\* The path of a URL of the model: what follows protocol, "://" and host, up
\* to the query string.
UrlPath(url) ==
    LET S == {i \in 4..Len(url) : url[i] = "?"}
    IN  IF S = {} THEN SubSeq(url, 4, Len(url))
        ELSE SubSeq(url, 4, (CHOOSE i \in S : \A j \in S : i <= j) - 1)

\* The query string of a URL of the model, "?" included; empty if there is none.
UrlQuery(url) == SubSeq(url, 4 + Len(UrlPath(url)), Len(url))

\* The <<key, value>> pairs of a query string, read four tokens at a time:
\* separator, key, "=", value.
RECURSIVE QueryPairs(_)
QueryPairs(q) ==
    IF Len(q) < 4 THEN << >> ELSE <<(<<q[2], q[4]>>)>> \o QueryPairs(SubSeq(q, 5, Len(q)))

\* The values a query string gives a key, in the order they stand in it.
RECURSIVE PairValues(_, _)
PairValues(pairs, key) ==
    IF pairs = << >>
    THEN << >>
    ELSE (IF Head(pairs)[1] = key THEN <<Head(pairs)[2]>> ELSE << >>)
            \o PairValues(Tail(pairs), key)

\* a is b with some elements left out.
RECURSIVE IsSubSeq(_, _)
IsSubSeq(a, b) ==
    IF a = << >> THEN TRUE
    ELSE IF b = << >> THEN FALSE
    ELSE IF Head(a) = Head(b) THEN IsSubSeq(Tail(a), Tail(b))
    ELSE IsSubSeq(a, Tail(b))

\* The other spelling the model has of a header name.
OtherSpelling(k) ==
    CASE k = "H" -> "h"
      [] k = "h" -> "H"
      [] k = headerContentType -> "content-type"
      [] k = "content-type" -> headerContentType

\* No option of the list binds a path parameter.
NoParams(options) == \A i \in DOMAIN options : options[i].op \notin {"WithParam", "WithParams"}

\* The single-valued fields of the built request are those of the last
\* option that set each, and every query value added under a key is in the
\* URL, in the order the options were applied.
LastWins ==
    /\ rn.req.Method = LastMethod(rn.options, MethodGet)
    /\ SubSeq(rn.req.URL, 1, 3) = <<LastProtocol(rn.options, "http"), "://", Host>>
    /\ NoParams(rn.options) => UrlPath(rn.req.URL) = LastPath(rn.options, << >>)
    /\ rn.req.Body = LastBody(rn.options, Nil)
    /\ \A k \in QueryKeys :
          PairValues(QueryPairs(UrlQuery(rn.req.URL)), k) = AddedQueryValues(rn.options, k)

\* C13 as claimed: in the built request each single-valued field (method,
\* path, protocol, body) has the value of the last option that set it, and
\* every value added under a header or query key is kept, in the order the
\* options were applied.
C13_LastWinsAllKept ==
    RequestBuilt =>
        /\ LastWins
        /\ \A k \in HeaderKeys :
              IsSubSeq(AddedHeaderValues(rn.options, k),
                       ValuesAt(rn.req.Header, CanonicalHeaderKey(k)))

\* C13, amended: as claimed, except that under Content-Type a JSON or XML
\* body option replaces the values added before it by its own content type;
\* the request holds under a header name exactly the values kept under its
\* spellings, those of one spelling in the order the options were applied.
C13_LastWinsKeptUnlessReplaced ==
    RequestBuilt =>
        /\ LastWins
        /\ \A k \in HeaderKeys :
              LET kept == KeptHeaderValues(rn.options, k)
                  other == KeptHeaderValues(rn.options, OtherSpelling(k))
                  held == ValuesAt(rn.req.Header, CanonicalHeaderKey(k))
              IN  /\ IsSubSeq(kept, held)
                  /\ Len(held) = Len(kept) + Len(other)
                  /\ other = << >> => held = kept

C13_Witness ==
    /\ RequestBuilt
    /\ rn.options = <<[op |-> "WithHeader", key |-> headerContentType, value |-> 1],
                      [op |-> "WithJson", body |-> StructValue],
                      [op |-> "WithString", body |-> "text"]>>
    /\ rn.req.Body = "text"
    /\ rn.req.Header[headerContentType] = <<"application/json">>

\* The parameter name that follows a ":" in a path: the tokens up to the
\* next "/" or ":".
RECURSIVE NameAt(_)
NameAt(p) ==
    IF p = << >> \/ Head(p) \in {"/", ":"} THEN << >> ELSE <<Head(p)>> \o NameAt(Tail(p))

\* The parameter a name spells, or "" if the model has no such parameter.
KeyOf(name) ==
    CASE name = <<"id">> -> KeyId
      [] name = <<"id", "x">> -> KeyIdx
      [] OTHER -> ""

\* A path with every :key token of a bound parameter replaced by the value
\* bound to it, every other token as it is.
RECURSIVE Substituted(_, _)
Substituted(p, options) ==
    IF p = << >>
    THEN << >>
    ELSE IF Head(p) # ":"
    THEN <<Head(p)>> \o Substituted(Tail(p), options)
    ELSE LET name == NameAt(Tail(p))
             rest == SubSeq(p, 2 + Len(name), Len(p))
             v == BoundParam(options, KeyOf(name))
         IN  (IF v # Nil THEN <<v>> ELSE <<":">> \o name) \o Substituted(rest, options)

\* C14 as claimed: in the URL of the built request every :key token of the
\* path whose key is a registered path parameter is replaced by that
\* parameter's value, and a :key token whose key is not registered stays as
\* it is; an unregistered token is no cause of error.
C14_ParamSubstitution ==
    /\ RequestBuilt =>
          UrlPath(rn.req.URL) = Substituted(LastPath(rn.options, << >>), rn.options)
    /\ (Returned /\ FailIndex(rn.options) = 0
            /\ LastProtocol(rn.options, "http") # BadProtocol) => rn.err = Nil

\* C15 as claimed: when a JSON (or XML) body option is the last option to
\* set the body, the body of the built request is the marshalled value, and
\* when no later option adds a Content-Type value, the request carries
\* exactly one Content-Type value, application/json (or application/xml),
\* whatever earlier options set under that header.
C15_BodySugar ==
    RequestBuilt =>
        LET S == Setters(rn.options, {"WithJson", "WithXml"})
        IN  S # {} =>
              LET o == rn.options[Last(S)]
                  later == SubSeq(rn.options, Last(S) + 1, Len(rn.options))
              IN  /\ Setters(later, {"WithBody", "WithString"}) = {} =>
                        rn.req.Body = BodyOf(o)
                  /\ (\A i \in DOMAIN later :
                          later[i].op = "WithHeader" =>
                              CanonicalHeaderKey(later[i].key) # headerContentType) =>
                        /\ headerContentType \in DOMAIN rn.req.Header
                        /\ rn.req.Header[headerContentType] = <<ContentTypeOf(o)>>

\* C16: the query string of the built URL is empty when no query value was
\* registered; otherwise it is "?" followed by one key=value pair per value,
\* the pairs joined by "&", and the pairs of one key carry its values in the
\* order they were registered.
C16_QueryPairs ==
    RequestBuilt =>
        LET q == UrlQuery(rn.req.URL)
            n == Len(AddedQueryValues(rn.options, "q")) + Len(AddedQueryValues(rn.options, "k"))
        IN  /\ Len(q) = 4 * n
            /\ \A i \in 1..n :
                  /\ q[4 * i - 3] = IF i = 1 THEN "?" ELSE "&"
                  /\ q[4 * i - 2] \in QueryKeys
                  /\ q[4 * i - 1] = "="
            /\ \A k \in QueryKeys :
                  PairValues(QueryPairs(q), k) = AddedQueryValues(rn.options, k)

C16_Witness ==
    /\ RequestBuilt
    /\ rn.options = <<[op |-> "WithQuery", key |-> "q", value |-> 1],
                      [op |-> "WithQuery", key |-> "q", value |-> 2]>>
    /\ rn.req.URL = <<"http", "://", Host, "?", "q", "=", "1", "&", "q", "=", "2">>

(***************************************************************************)
(* Properties of connector.New and of the path-default map, checked under  *)
(* Spec.                                                                   *)
(***************************************************************************)
\* The general options the WithGeneral options of a list add up to.
RECURSIVE GeneralIn(_)
GeneralIn(options) ==
    IF options = << >>
    THEN << >>
    ELSE (IF Head(options).op = "WithGeneral" THEN Head(options).o ELSE << >>)
            \o GeneralIn(Tail(options))

\* The path defaults a list of options registers, starting from the map m.
RECURSIVE RegisteredPaths(_, _)
RegisteredPaths(options, m) ==
    IF options = << >>
    THEN m
    ELSE RegisteredPaths(Tail(options),
                         CASE Head(options).op = "WithPaths" -> Head(options).po
                           [] Head(options).op = "WithPath" ->
                                MapPut(m, Head(options).path, Head(options).o)
                           [] OTHER -> m)

\* What a list of options leaves in the map the caller gave WithPaths.
WrittenToCallerMap(options) ==
    LET S == Setters(options, {"WithPaths"})
    IN  IF S = {} THEN EmptyMap
        ELSE RegisteredPaths(SubSeq(options, Last(S), Len(options)), EmptyMap)

\* C17: when a construction option returns an error, connector.New returns
\* that error together with the empty Connector, and only the options before
\* the failing one were applied: the Connector the loop worked on and the
\* map the caller gave WithPaths hold what those options set, nothing of
\* what an option after the failing one would set.
C17_NewFailsFast ==
    pc = "failed" =>
        LET i == FailIndex(newCall.options)
            applied == BeforeFailure(newCall.options)
        IN  /\ i # 0
            /\ ret = newCall.options[i].err
            /\ c = EmptyConnector
            /\ newCall.local.host = Host
            /\ newCall.local.generalOption = GeneralIn(applied)
            /\ newCall.local.pathOptions = RegisteredPaths(applied, EmptyMap)
            /\ callerMap.m = WrittenToCallerMap(applied)

C17_Witness ==
    /\ pc = "failed"
    /\ newCall.options = <<[op |-> "Custom", err |-> ErrMocked],
                           [op |-> "WithGeneral", o |-> <<H1>>]>>
    /\ ret = ErrMocked
    /\ c = EmptyConnector
    /\ newCall.local.generalOption = << >>

\* C19 as claimed: once connector.New has returned, the path-default
\* options the connector builds from never change, whatever the caller does
\* to the map it gave WithPaths.
C19_PathDefaultsFrozen == [][pc # "new" => c'.pathOptions = c.pathOptions]_vars

\* C20: a call for a path that was never registered builds and goes on as
\* the same call would with that path registered with an empty list: the
\* request is one that the path literal, the general options and the
\* per-call options build, an error of that build is returned without the
\* transport being invoked, and otherwise the transport is invoked with
\* that request.
C20_UnregisteredAsEmpty ==
    (Called /\ call.path \notin DOMAIN c.pathOptions) =>
        LET registered == [c EXCEPT !.pathOptions = MapPut(c.pathOptions, call.path, << >>)]
            hv == HeaderValuesIn(c.generalOption, "H") \o HeaderValuesIn(call.options, "H")
        IN  /\ \E n \in RequestNew(c.host, ReqOptions(registered, call.path, call.options)) :
                  /\ n.req = req
                  /\ IF n.err # Nil
                     THEN pc = "done" /\ ret = n.err /\ clientCalls = << >>
                     ELSE pc = "do" \/ clientCalls = <<req>>
            /\ ~req.isNil =>
                  /\ ValuesAt(req.Header, "H") = hv
                  /\ req.URL = <<"http", "://", Host>>
                                  \o LastPath(c.generalOption \o call.options, call.path)

C20_Witness ==
    /\ pc = "done"
    /\ call.path = PathQ
    /\ DOMAIN c.pathOptions = {}
    /\ c.generalOption = <<H1>>
    /\ call.options = <<H3>>
    /\ clientCalls = <<req>>
    /\ req.Header["H"] = <<"1", "3">>
    /\ req.URL = <<"http", "://", Host, "/", "q">>

(***************************************************************************)
(* Concurrent callers: one connector is built, then every caller runs      *)
(* DoBuild calls on it, the steps of the calls interleaved.  DoBuild and   *)
(* Do have a value receiver and only read the Connector.                   *)
(***************************************************************************)
\* options given to connector.New
ConcConnPool ==
    {[op |-> "WithGeneral", o |-> <<H1>>],
     [op |-> "WithPath", path |-> PathP, o |-> <<H2>>],
     [op |-> "WithPaths", po |-> [x \in {PathP} |-> <<H2>>]]}

\* per-call options
ConcReqPool == {H3, [op |-> "Custom", err |-> ErrMocked]}

\* what WebClient.Do may return
ConcOutcomes ==
    {[res |-> NilResponse, err |-> ErrMocked],
     [res |-> HttpResponse(200, BodyText), err |-> Nil]}

\* the responder every caller hands to DoBuild
ConcResponder ==
    NewResponder(<<[op |-> "For", status |-> 200, f |-> Func("f200", ErrHandler)],
                   [op |-> "ForDefault", f |-> Func("fdef", Nil)]>>).r

\* The connector state the sequential machine keeps, the Connector aside.
callVars == <<pc, call, req, clientRet, ret, clientCalls, respondCalls, callerMap, newCall>>

ConcNew ==
    /\ \A p \in Callers : procs[p].pc = "new"
    /\ \E options \in SeqsUpTo(ConcConnPool, MaxConnOptions) :
         LET n == ConnectorNew(Host, "client", options)
         IN  /\ n.err = Nil
             /\ c' = n.r
             /\ procs' = [p \in Callers |-> [NoProc EXCEPT !.pc = "idle", !.conn = n.r]]
    /\ UNCHANGED <<histVars, callVars, dispVars, reqVars, invoked, target>>

\* Mutant: DoBuild appends the per-call options to the connector's own
\* general option list.
ConcDoBuildGrows(p) ==
    /\ procs[p].pc = "idle"
    /\ \E path \in Paths, options \in SeqsUpTo(ConcReqPool, MaxCallOptions) :
         \E n \in RequestNew(c.host, ReqOptions(c, path, options)) :
            /\ procs' = [procs EXCEPT ![p] =
                            [pc |-> IF n.err # Nil THEN "done" ELSE "do",
                             conn |-> procs[p].conn,
                             call |-> [path |-> path, responder |-> ConcResponder,
                                       options |-> options],
                             req |-> n.req,
                             clientRet |-> NoOutcome,
                             ret |-> IF n.err # Nil THEN n.err ELSE NoReturn]]
            /\ c' = [c EXCEPT !.generalOption = c.generalOption \o options]
    /\ UNCHANGED <<histVars, callVars, dispVars, reqVars, invoked, target>>

ConcDoBuild(p) ==
    /\ procs[p].pc = "idle"
    /\ \E path \in Paths, options \in SeqsUpTo(ConcReqPool, MaxCallOptions) :
         \E n \in RequestNew(c.host, ReqOptions(c, path, options)) :
            procs' = [procs EXCEPT ![p] =
                        [pc |-> IF n.err # Nil THEN "done" ELSE "do",
                         conn |-> procs[p].conn,
                         call |-> [path |-> path, responder |-> ConcResponder,
                                   options |-> options],
                         req |-> n.req,
                         clientRet |-> NoOutcome,
                         ret |-> IF n.err # Nil THEN n.err ELSE NoReturn]]
    /\ UNCHANGED <<histVars, c, callVars, dispVars, reqVars, invoked, target>>

ConcDo(p) ==
    /\ procs[p].pc = "do"
    /\ \E o \in ConcOutcomes :
         procs' = [procs EXCEPT ![p].clientRet = o,
                                ![p].ret = IF o.err # Nil THEN o.err ELSE NoReturn,
                                ![p].pc = IF o.err # Nil THEN "done" ELSE "respond"]
    /\ UNCHANGED <<histVars, c, callVars, dispVars, reqVars, invoked, target>>

ConcDoRespond(p) ==
    /\ procs[p].pc = "respond"
    /\ LET d == ResponseRespond(procs[p].call.responder, procs[p].clientRet.res, NoSlot)
       IN  procs' = [procs EXCEPT ![p].ret = d.err, ![p].pc = "done"]
    /\ UNCHANGED <<histVars, c, callVars, dispVars, reqVars, invoked, target>>

ConcReturn(p) ==
    /\ procs[p].pc = "done"
    /\ procs' = [procs EXCEPT ![p] = [NoProc EXCEPT !.pc = "idle", !.conn = procs[p].conn]]
    /\ UNCHANGED <<histVars, c, callVars, dispVars, reqVars, invoked, target>>

ConcNext ==
    \/ ConcNew
    \/ \E p \in Callers : ConcDoBuild(p)
    \/ \E p \in Callers : ConcDo(p)
    \/ \E p \in Callers : ConcDoRespond(p)
    \/ \E p \in Callers : ConcReturn(p)

SpecConcurrent == Init /\ [][ConcNext]_vars

\* The connector has been built.
ConcBuilt == \E p \in Callers : procs[p].pc # "new"

\* Every call under way holds what the call would build and return were it
\* the only one: a result of request.New on the connector's options and the
\* call's own path and options.
BuildsAsAlone ==
    \A p \in Callers :
        procs[p].pc \in {"do", "respond", "done"} =>
            LET k == procs[p].call
                defaults == IF k.path \in DOMAIN c.pathOptions
                            THEN c.pathOptions[k.path] ELSE << >>
                hv == HeaderValuesIn(c.generalOption, "H") \o HeaderValuesIn(defaults, "H")
                        \o HeaderValuesIn(k.options, "H")
            IN  /\ \E n \in RequestNew(c.host, ReqOptions(c, k.path, k.options)) :
                      /\ n.req = procs[p].req
                      /\ n.err # Nil => procs[p].ret = n.err
                /\ ~procs[p].req.isNil =>
                      /\ ValuesAt(procs[p].req.Header, "H") = hv
                      /\ procs[p].req.URL = <<"http", "://", Host>> \o k.path

\* C18: however the steps of the callers' DoBuild calls interleave, the
\* connector's configuration (host, general options, path defaults) stays
\* as connector.New returned it, and every call under way holds the request
\* it would build if run alone.
C18_ConfigUntouched ==
    ConcBuilt =>
        /\ \A p \in Callers : procs[p].conn = c
        /\ BuildsAsAlone

C18_Witness ==
    /\ c.generalOption = <<H1>>
    /\ c.pathOptions = [x \in {PathP} |-> <<H2>>]
    /\ procs["a"].pc = "do"
    /\ procs["a"].call.path = PathP
    /\ procs["a"].call.options = <<H3>>
    /\ procs["a"].req.Header["H"] = <<"1", "2", "3">>
    /\ procs["b"].pc = "respond"
    /\ procs["b"].call.path = PathQ
    /\ procs["b"].call.options = << >>
    /\ procs["b"].req.Header["H"] = <<"1">>

(***************************************************************************)
(* What the dispatchers hand back, checked under SpecDispatch.             *)
(***************************************************************************)
\* C21: for every non-nil response given to the strict Respond, the result
\* carries the response's status code in Status and the response itself in
\* HttpResponse, whichever branch answered: a status parser, the default
\* parser, or no handler at all.
C21_ResultCarriesResponse ==
    (StrictAnswered /\ ~out.res.isNil) =>
        /\ out.result.Status = out.res.StatusCode
        /\ out.result.HttpResponse = out.res

\* The lenient dispatcher has answered a Respond call.
LenientAnswered == pkg = "response" /\ out.called

\* C22: the lenient Respond returns nil and invokes no handler when the
\* response is nil, and when the status has no registered handler and no
\* default is registered; a registered default is not invoked for a nil
\* response.
C22_LenientSilent ==
    (/\ LenientAnswered
     /\ \/ out.res.isNil
        \/ /\ out.res.StatusCode \notin DOMAIN rsp.responders
           /\ rsp.defResponder = NilFunc) =>
        /\ out.result.err = Nil
        /\ invoked = << >>

\* A nil response given to a responder whose default handler returns an
\* error: Respond returned nil and called nothing.
C22_Witness ==
    /\ LenientAnswered
    /\ out.res.isNil
    /\ rsp.defResponder = Func("fdeferr", ErrHandler)
    /\ out.result.err = Nil
    /\ invoked = << >>

(***************************************************************************)
(* Determinism of the URL, checked under SpecRequest.                      *)
(***************************************************************************)
\* C23: the URL of a built request is a function of the host and the option
\* sequence: every build request.New can make of the same host and options,
\* query parameters under several keys included, has the query string of
\* this build, keys in the same order.
C23_UrlDeterministic ==
    RequestBuilt =>
        \A n \in RequestNew(Host, rn.options) :
            UrlQuery(n.req.URL) = UrlQuery(rn.req.URL)

(***************************************************************************)
(* Successive DoBuild calls on one connector: the caller makes one call    *)
(* after the other, and the call that returned last is remembered in prev. *)
(* The options set every field a request has: header, query, path          *)
(* parameter, method and protocol.                                         *)
(***************************************************************************)
PathId == <<"/", ":", "id">>    \* "/:id"
SeqPaths == {PathP, PathId}

\* options given to connector.New
SeqConnPool ==
    {[op |-> "WithGeneral", o |-> <<H1>>],
     [op |-> "WithPath", path |-> PathP,
      o |-> <<H2, [op |-> "WithMethod", method |-> MethodPost]>>],
     [op |-> "WithPath", path |-> PathId,
      o |-> <<[op |-> "WithParam", key |-> KeyId, value |-> 1]>>]}

\* per-call options
SeqReqPool ==
    {H3,
     [op |-> "WithQuery", key |-> "q", value |-> 1],
     [op |-> "WithParam", key |-> KeyId, value |-> 2],
     [op |-> "WithMethod", method |-> "PUT"],
     [op |-> "WithProtocol", protocol |-> "https"]}

SeqNew ==
    /\ pc = "new"
    /\ \E options \in SeqsUpTo(SeqConnPool, MaxConnOptions) :
         LET n == ConnectorNew(Host, "client", options)
         IN  /\ c' = n.r
             /\ ret' = n.err
             /\ pc' = IF n.err # Nil THEN "failed" ELSE "idle"
             /\ callerMap' = n.cm
             /\ newCall' = IF n.err # Nil
                           THEN [options |-> options, local |-> n.local]
                           ELSE NoNewCall
    /\ UNCHANGED <<histVars, call, req, clientRet, clientCalls, respondCalls, dispVars,
                   reqVars, concVars, invoked, target>>

\* Mutant: the Builder of the call before is used again, so that what the
\* earlier call's options set is still there.
SeqDoBuildCarry ==
    /\ pc = "idle"
    /\ \E path \in SeqPaths, options \in SeqsUpTo(SeqReqPool, MaxCallOptions) :
         LET before == IF prev.made THEN ReqOptions(c, prev.path, prev.options) ELSE << >>
         IN  \E n \in RequestNew(c.host, before \o ReqOptions(c, path, options)) :
                /\ call' = [path |-> path, responder |-> ConcResponder, options |-> options]
                /\ req' = n.req
                /\ IF n.err # Nil
                   THEN ret' = n.err /\ pc' = "done"
                   ELSE ret' = NoReturn /\ pc' = "do"
    /\ UNCHANGED <<histVars, c, clientRet, clientCalls, respondCalls, callerMap, newCall,
                   dispVars, reqVars, concVars, invoked, target>>

SeqDoBuild ==
    /\ pc = "idle"
    /\ \E path \in SeqPaths, options \in SeqsUpTo(SeqReqPool, MaxCallOptions) :
         \E n \in RequestNew(c.host, ReqOptions(c, path, options)) :
            /\ call' = [path |-> path, responder |-> ConcResponder, options |-> options]
            /\ req' = n.req
            /\ IF n.err # Nil
               THEN ret' = n.err /\ pc' = "done"
               ELSE ret' = NoReturn /\ pc' = "do"
    /\ UNCHANGED <<histVars, c, clientRet, clientCalls, respondCalls, callerMap, newCall,
                   dispVars, reqVars, concVars, invoked, target>>

\* DoBuild returns to the caller, who keeps what the call was and built.
SeqReturn ==
    /\ pc = "done"
    /\ pc' = "idle"
    /\ prev' = [made |-> TRUE, path |-> call.path, options |-> call.options, req |-> req]
    /\ call' = NoCall
    /\ req' = NilRequest
    /\ clientRet' = NoOutcome
    /\ ret' = NoReturn
    /\ clientCalls' = << >>
    /\ respondCalls' = << >>
    /\ invoked' = << >>
    /\ UNCHANGED <<c, callerMap, newCall, dispVars, reqVars, concVars, target>>

SeqNext == SeqNew \/ SeqDoBuild \/ Do \/ DoRespond \/ SeqReturn

SpecSuccessive == Init /\ [][SeqNext]_vars

\* C24: the request a DoBuild call builds is made of the connector's
\* configuration, the call's path and the call's own options, whatever call
\* came before: method, protocol, path parameters, query values and header
\* values are those of the general, path-default and per-call options of
\* this call, nothing of what the earlier call or the defaults of its path
\* set is in it, and a call with the arguments of the call before builds
\* the request the call before built.
C24_NoCarryOver ==
    (Built /\ prev.made) =>
        /\ req.Method = LastMethod(CallOptions, MethodGet)
        /\ SubSeq(req.URL, 1, 3) = <<LastProtocol(CallOptions, "http"), "://", c.host>>
        /\ UrlPath(req.URL) = Substituted(call.path, CallOptions)
        /\ \A k \in QueryKeys :
              PairValues(QueryPairs(UrlQuery(req.URL)), k) = AddedQueryValues(CallOptions, k)
        /\ ValuesAt(req.Header, "H") = AddedHeaderValues(CallOptions, "H")
        /\ DOMAIN req.Header \subseteq {"H"}
        /\ (prev.path = call.path /\ prev.options = call.options) => req = prev.req

\* A call to /p with H=3, which built a POST with H: [1, 2, 3], is followed by
\* a call to /:id with no options: a GET with H: [1].
C24_Witness ==
    /\ Built
    /\ prev.made
    /\ prev.path = PathP
    /\ prev.options = <<H3>>
    /\ ~prev.req.isNil
    /\ prev.req.Method = MethodPost
    /\ ValuesAt(prev.req.Header, "H") = <<"1", "2", "3">>
    /\ call.path = PathId
    /\ call.options = << >>
    /\ req.Method = MethodGet
    /\ ValuesAt(req.Header, "H") = <<"1">>

==============================================================================
